---- MODULE Spec2Model ----
(***************************************************************************)
(* Model of the VAT-id check handler of ust-id-checker.                    *)
(*                                                                         *)
(* Two versions of the handler exist in the repository:                    *)
(*   "part_000"  : src/unnamed/part_000  (rate limiter, XI/EL, timeout)    *)
(*   "check-vat" : src/api/check-vat.js  (no rate limiter)                 *)
(* A request is served by one of them; the parameter f names the file.     *)
(*                                                                         *)
(* JavaScript strings are sequences of one-character strings.              *)
(***************************************************************************)
EXTENDS Integers, Sequences, FiniteSets, Bags, TLC

(***************************************************************************)
(* Program constants                                                       *)
(***************************************************************************)
WINDOW == 3600000

LIMIT == 150

RETRY_AFTER == 3600

FETCH_TIMEOUT == 10000

(***************************************************************************)
(* Bounds of the exploration                                               *)
(***************************************************************************)
\* number of clock advances explored
MaxTicks == 2

\* how far the exploration varies its inputs around a long record: see
\* Light, Carried and Edge
MaxSmall == 1

\* handler invocations suspended at an await at the same time
MaxInFlight == 2

\* by how many digits the digit run of a sampled identifier is shortened or
\* lengthened
MaxStretch == 1

(***************************************************************************)
(* Characters and strings                                                  *)
(***************************************************************************)
Digit == {"0", "1", "2", "3", "4", "5", "6", "7", "8", "9"}

UpperSeq == << "A", "B", "C", "D", "E", "F", "G", "H", "I", "J", "K", "L", "M",
               "N", "O", "P", "Q", "R", "S", "T", "U", "V", "W", "X", "Y", "Z" >>

LowerSeq == << "a", "b", "c", "d", "e", "f", "g", "h", "i", "j", "k", "l", "m",
               "n", "o", "p", "q", "r", "s", "t", "u", "v", "w", "x", "y", "z" >>

Upper == {UpperSeq[i] : i \in 1..26}

Lower == {LowerSeq[i] : i \in 1..26}

\* the characters /\s/ matches, among those the model draws inputs from
Whitespace == {" ", "\t", "\n"}

\* the letters of a range [x-y] of a regular expression
Range(x, y) ==
  LET ix == CHOOSE i \in 1..26 : UpperSeq[i] = x
      iy == CHOOSE i \in 1..26 : UpperSeq[i] = y
  IN {UpperSeq[i] : i \in ix..iy}

\* String.prototype.toUpperCase on one character
UpChar(c) ==
  IF c \in Lower THEN UpperSeq[CHOOSE i \in 1..26 : LowerSeq[i] = c] ELSE c

ToUpperCase(s) == [i \in 1..Len(s) |-> UpChar(s[i])]

\* s.replace(/\s/, ''), without the g flag: the first match only
StripFirstWhitespace(s) ==
  LET ws == {i \in 1..Len(s) : s[i] \in Whitespace}
  IN IF ws = {}
       THEN s
       ELSE LET i == CHOOSE j \in ws : \A o \in ws : j <= o
            IN SubSeq(s, 1, i - 1) \o SubSeq(s, i + 1, Len(s))

\* s.replace(/\s/g, '')
StripWhitespace(s) == SelectSeq(s, LAMBDA c : c \notin Whitespace)

\* s.substring(a, b) with JavaScript's 0-based, end-exclusive indices, a <= b
Substring(s, a, b) ==
  LET lo == IF a > Len(s) THEN Len(s) ELSE a
      hi == IF b > Len(s) THEN Len(s) ELSE b
  IN SubSeq(s, lo + 1, hi)

\* s.substring(a)
SubstringFrom(s, a) == Substring(s, a, Len(s))

(***************************************************************************)
(* JavaScript values a request can carry as vatId                          *)
(*   "undefined"        the parameter is absent                            *)
(*   "string"           a string, chars its characters                     *)
(*   "object"           a plain JSON object, {}                            *)
(*   "objectToString"   a JSON object with an own, non-callable property   *)
(*                      toString, {"toString": 1}                          *)
(***************************************************************************)
JsUndefined == [type |-> "undefined", chars |-> <<>>]

JsString(s) == [type |-> "string", chars |-> s]

JsObject == [type |-> "object", chars |-> <<>>]

JsObjectToString == [type |-> "objectToString", chars |-> <<>>]

\* !v is false
Truthy(v) ==
  CASE v.type = "undefined" -> FALSE
    [] v.type = "string" -> v.chars # <<>>
    [] OTHER -> TRUE

\* whether v.toString() throws a TypeError
ToStringThrows(v) == v.type = "objectToString"

ObjectObject == << "[", "o", "b", "j", "e", "c", "t", " ",
                   "O", "b", "j", "e", "c", "t", "]" >>

\* v.toString() of a truthy v that does not throw
ToStringJs(v) == IF v.type = "string" THEN v.chars ELSE ObjectObject

\* vatId.toString().replace(/\s/g, '').toUpperCase()
cleanVatId(v) == ToUpperCase(StripWhitespace(ToStringJs(v)))

countryCode(clean) == Substring(clean, 0, 2)

vatNumber(clean) == SubstringFrom(clean, 2)

(***************************************************************************)
(* Format validation: the table vatFormats and RegExp.prototype.test       *)
(***************************************************************************)
\* s[from..to] exists and consists of characters of set
AllIn(s, from, to, set) == to <= Len(s) /\ \A i \in from..to : s[i] \in set

\* ^XY<body>$ where the body has n characters: the prefix and the length
Shape(s, x, y, n) == Len(s) = n + 2 /\ s[1] = x /\ s[2] = y

\* the pattern without its end anchor: ^XY\d{n}
DigitsUnanchored(s, x, y, n) ==
  Len(s) >= n + 2 /\ s[1] = x /\ s[2] = y /\ AllIn(s, 3, n + 2, Digit)

\* ^XY\d{n}$
Digits(s, x, y, n) == Shape(s, x, y, n) /\ AllIn(s, 3, n + 2, Digit)

\* ^XY\d{lo,hi}$
DigitsBetween(s, x, y, lo, hi) == \E n \in lo..hi : Digits(s, x, y, n)

AlphaNum == Upper \cup Digit

\* [A-HJ-NP-Z0-9]
FrKey == Range("A", "H") \cup Range("J", "N") \cup Range("P", "Z") \cup Digit

\* the keys of vatFormats in file f
vatFormatKeys(f) ==
  { <<"A","T">>, <<"B","E">>, <<"B","G">>, <<"C","Y">>, <<"C","Z">>, <<"D","E">>,
    <<"D","K">>, <<"E","E">>, <<"G","R">>, <<"E","S">>, <<"F","I">>, <<"F","R">>,
    <<"H","R">>, <<"H","U">>, <<"I","E">>, <<"I","T">>, <<"L","T">>, <<"L","U">>,
    <<"L","V">>, <<"M","T">>, <<"N","L">>, <<"P","L">>, <<"P","T">>, <<"R","O">>,
    <<"S","E">>, <<"S","I">>, <<"S","K">> }
  \cup (IF f = "part_000" THEN { <<"E","L">>, <<"X","I">> } ELSE {})

\* vatFormats[code].test(s), for a key code of the table
vatFormats(code, s) ==
  CASE code = <<"A","T">> -> Shape(s, "A", "T", 9) /\ s[3] = "U" /\ AllIn(s, 4, 11, Digit)
    [] code = <<"B","E">> -> Shape(s, "B", "E", 10)
                             /\ \/ s[3] = "0" /\ AllIn(s, 4, 12, Digit)
                                \/ AllIn(s, 3, 12, Digit)
    [] code = <<"B","G">> -> DigitsBetween(s, "B", "G", 9, 10)
    [] code = <<"C","Y">> -> Shape(s, "C", "Y", 9) /\ AllIn(s, 3, 10, Digit) /\ s[11] \in Upper
    [] code = <<"C","Z">> -> DigitsBetween(s, "C", "Z", 8, 10)
    [] code = <<"D","E">> -> Digits(s, "D", "E", 9)
    [] code = <<"D","K">> -> Digits(s, "D", "K", 8)
    [] code = <<"E","E">> -> Digits(s, "E", "E", 9)
    [] code = <<"G","R">> -> Digits(s, "E", "L", 9)
    [] code = <<"E","L">> -> Digits(s, "E", "L", 9)
    [] code = <<"E","S">> -> Shape(s, "E", "S", 9) /\ s[3] \in AlphaNum
                             /\ AllIn(s, 4, 10, Digit) /\ s[11] \in AlphaNum
    [] code = <<"F","I">> -> Digits(s, "F", "I", 8)
    [] code = <<"F","R">> -> Shape(s, "F", "R", 11) /\ AllIn(s, 3, 4, FrKey)
                             /\ AllIn(s, 5, 13, Digit)
    [] code = <<"H","R">> -> Digits(s, "H", "R", 11)
    [] code = <<"H","U">> -> Digits(s, "H", "U", 8)
    [] code = <<"I","E">> -> Shape(s, "I", "E", 8) /\ s[10] \in Range("A", "W")
                             /\ \/ AllIn(s, 3, 9, Digit)
                                \/ /\ s[3] \in Digit
                                   /\ s[4] \in Upper \cup {"*", "+"}
                                   /\ AllIn(s, 5, 9, Digit)
    [] code = <<"I","T">> -> Digits(s, "I", "T", 11)
    [] code = <<"L","T">> -> Digits(s, "L", "T", 9) \/ Digits(s, "L", "T", 12)
    [] code = <<"L","U">> -> Digits(s, "L", "U", 8)
    [] code = <<"L","V">> -> Digits(s, "L", "V", 11)
    [] code = <<"M","T">> -> Digits(s, "M", "T", 8)
    [] code = <<"N","L">> -> Shape(s, "N", "L", 12) /\ AllIn(s, 3, 11, Digit)
                             /\ s[12] = "B" /\ AllIn(s, 13, 14, Digit)
    [] code = <<"P","L">> -> Digits(s, "P", "L", 10)
    [] code = <<"P","T">> -> Digits(s, "P", "T", 9)
    [] code = <<"R","O">> -> DigitsBetween(s, "R", "O", 2, 10)
    [] code = <<"S","E">> -> Digits(s, "S", "E", 12)
    [] code = <<"S","I">> -> Digits(s, "S", "I", 8)
    [] code = <<"S","K">> -> Digits(s, "S", "K", 10)
    [] code = <<"X","I">> -> Digits(s, "X", "I", 9)

(***************************************************************************)
(* The documented patterns as data: each alternative of a country's        *)
(* regular expression is a prefix, a run of n digits and a suffix; where   *)
(* the expression admits any letter, the form names one.                   *)
(***************************************************************************)
Form(pre, n, post) == [pre |-> pre, n |-> n, post |-> post]

\* the alternatives of the pattern stored under the key code
Forms(code) ==
  CASE code = <<"A","T">> -> {Form(<<"A","T","U">>, 8, <<>>)}
    [] code = <<"B","E">> -> {Form(<<"B","E","0">>, 9, <<>>), Form(<<"B","E">>, 10, <<>>)}
    [] code = <<"B","G">> -> {Form(<<"B","G">>, n, <<>>) : n \in 9..10}
    [] code = <<"C","Y">> -> {Form(<<"C","Y">>, 8, <<"X">>)}
    [] code = <<"C","Z">> -> {Form(<<"C","Z">>, n, <<>>) : n \in 8..10}
    [] code = <<"D","E">> -> {Form(<<"D","E">>, 9, <<>>)}
    [] code = <<"D","K">> -> {Form(<<"D","K">>, 8, <<>>)}
    [] code = <<"E","E">> -> {Form(<<"E","E">>, 9, <<>>)}
    [] code = <<"G","R">> -> {Form(<<"E","L">>, 9, <<>>)}
    [] code = <<"E","L">> -> {Form(<<"E","L">>, 9, <<>>)}
    [] code = <<"E","S">> -> {Form(<<"E","S","A">>, 7, <<"Z">>), Form(<<"E","S">>, 9, <<>>)}
    [] code = <<"F","I">> -> {Form(<<"F","I">>, 8, <<>>)}
    [] code = <<"F","R">> -> {Form(<<"F","R","A","B">>, 9, <<>>), Form(<<"F","R">>, 11, <<>>)}
    [] code = <<"H","R">> -> {Form(<<"H","R">>, 11, <<>>)}
    [] code = <<"H","U">> -> {Form(<<"H","U">>, 8, <<>>)}
    [] code = <<"I","E">> -> {Form(<<"I","E">>, 7, <<"A">>), Form(<<"I","E","1","A">>, 5, <<"W">>)}
    [] code = <<"I","T">> -> {Form(<<"I","T">>, 11, <<>>)}
    [] code = <<"L","T">> -> {Form(<<"L","T">>, 9, <<>>), Form(<<"L","T">>, 12, <<>>)}
    [] code = <<"L","U">> -> {Form(<<"L","U">>, 8, <<>>)}
    [] code = <<"L","V">> -> {Form(<<"L","V">>, 11, <<>>)}
    [] code = <<"M","T">> -> {Form(<<"M","T">>, 8, <<>>)}
    [] code = <<"N","L">> -> {Form(<<"N","L">>, 9, <<"B","0","1">>)}
    [] code = <<"P","L">> -> {Form(<<"P","L">>, 10, <<>>)}
    [] code = <<"P","T">> -> {Form(<<"P","T">>, 9, <<>>)}
    [] code = <<"R","O">> -> {Form(<<"R","O">>, n, <<>>) : n \in 2..10}
    [] code = <<"S","E">> -> {Form(<<"S","E">>, 12, <<>>)}
    [] code = <<"S","I">> -> {Form(<<"S","I">>, 8, <<>>)}
    [] code = <<"S","K">> -> {Form(<<"S","K">>, 10, <<>>)}
    [] code = <<"X","I">> -> {Form(<<"X","I">>, 9, <<>>)}

DigitSeq == << "1", "2", "3", "4", "5", "6", "7", "8", "9", "0" >>

\* a run of n digits
DigitRun(n) == [i \in 1..n |-> DigitSeq[((i - 1) % 10) + 1]]

\* the identifier of a form with its digit run changed by k digits
Sample(form, k) == form.pre \o DigitRun(form.n + k) \o form.post

(***************************************************************************)
(* The rate limiter: a Map from client identity to its timestamps          *)
(***************************************************************************)
\* Map.prototype.set
MapSet(m, k, v) == [x \in DOMAIN m \cup {k} |-> IF x = k THEN v ELSE m[x]]

\* a filter that keeps the timestamp exactly one window old:
\* now - time <= 3600000
RecentInclusive(times, now) == SelectSeq(times, LAMBDA time : now - time <= WINDOW)

\* times.filter(time => now - time < 3600000)
Recent(times, now) == SelectSeq(times, LAMBDA time : now - time < WINDOW)

\* the limit test off by one: requests.length > 150
OverLimitOffByOne(requests) == Len(requests) > LIMIT

\* requests.length >= 150
OverLimit(requests) == Len(requests) >= LIMIT

\* a limiter that appends the timestamp of a rejected request too
RateLimitCountsRejected(rl, ip, now) ==
  IF ip \in DOMAIN rl
    THEN LET requests == Recent(rl[ip], now)
         IN [allowed |-> ~OverLimit(requests),
             rl |-> MapSet(rl, ip, Append(requests, now))]
    ELSE [allowed |-> TRUE, rl |-> MapSet(rl, ip, <<now>>)]

\* a limiter that tests the length of the stored record, not of the
\* filtered one
RateLimitUnfilteredTest(rl, ip, now) ==
  IF ip \in DOMAIN rl
    THEN IF OverLimit(rl[ip])
           THEN [allowed |-> FALSE, rl |-> rl]
           ELSE [allowed |-> TRUE, rl |-> MapSet(rl, ip, Append(Recent(rl[ip], now), now))]
    ELSE [allowed |-> TRUE, rl |-> MapSet(rl, ip, <<now>>)]

\* a limiter that locks everyone out once any identity is at the limit
RateLimitAnyFull(rl, ip, now) ==
  IF \E x \in DOMAIN rl : OverLimit(Recent(rl[x], now))
    THEN [allowed |-> FALSE, rl |-> rl]
    ELSE [allowed |-> TRUE,
          rl |-> MapSet(rl, ip,
                   Append(IF ip \in DOMAIN rl THEN Recent(rl[ip], now) ELSE <<>>, now))]

\* lines 29-41: the new map and whether the request is admitted
RateLimit(rl, ip, now) ==
  IF ip \in DOMAIN rl
    THEN LET requests == Recent(rl[ip], now)
         IN IF OverLimit(requests)
              THEN [allowed |-> FALSE, rl |-> rl]
              ELSE [allowed |-> TRUE, rl |-> MapSet(rl, ip, Append(requests, now))]
    ELSE [allowed |-> TRUE, rl |-> MapSet(rl, ip, <<now>>)]

\* a sweep whose filter is inverted: it keeps what left the window
CleanupInverted(rl, now) ==
  LET old(times) == SelectSeq(times, LAMBDA time : ~(now - time < WINDOW))
      kept == {ip \in DOMAIN rl : Len(old(rl[ip])) # 0}
  IN [ip \in kept |-> old(rl[ip])]

\* a sweep whose test is inverted: it deletes the identities that still have
\* timestamps inside the window and stores the empty records
CleanupDeletesLive(rl, now) ==
  LET kept == {ip \in DOMAIN rl : Len(Recent(rl[ip], now)) = 0}
  IN [ip \in kept |-> Recent(rl[ip], now)]

\* a sweep that stores every filtered record and never deletes an identity
CleanupKeepsEmpty(rl, now) == [ip \in DOMAIN rl |-> Recent(rl[ip], now)]

\* lines 45-52: the sweep over every entry of the map
Cleanup(rl, now) ==
  LET kept == {ip \in DOMAIN rl : Len(Recent(rl[ip], now)) # 0}
  IN [ip \in kept |-> Recent(rl[ip], now)]

\* lines 22-25: the head of the forwarded-for chain, else the real-ip header,
\* else the connection's address, else 'unknown'; "" stands for an absent value
clientIP(req) ==
  IF req.forwardedFor # <<>> /\ req.forwardedFor[1] # "" THEN req.forwardedFor[1]
  ELSE IF req.realIp # "" THEN req.realIp
  ELSE IF req.remoteAddress # "" THEN req.remoteAddress
  ELSE "unknown"

(***************************************************************************)
(* Requests and responses                                                  *)
(*                                                                         *)
(* A request: [method, forwardedFor, realIp, remoteAddress, query, body],  *)
(* query and body being the JavaScript value of their vatId.               *)
(* A response: [status, body, sent, file, ip, stages, calls, swept, vies]: *)
(*   sent    "json" (res.json), "end" (res.end), or "uncaught": the        *)
(*           handler's promise rejected and the host answers 500;          *)
(*   stages  the stages the request entered, in order;                     *)
(*   calls   the outbound registry calls the request issued;               *)
(*   ip      the client identity the rate limiter derived ("" if none);    *)
(*   swept   what the request's sweep did: the identities it removed and   *)
(*           those whose record it shortened and kept;                     *)
(*   vies    what the registry answered to the request's call.             *)
(* JSON true, false and null are the strings "true", "false", "null" where *)
(* a field can hold any of them; an error text is a tuple of its parts, an *)
(* interpolated string contributing its characters; umlauts are written    *)
(* ae, ue.                                                                 *)
(***************************************************************************)
Files == {"part_000", "check-vat"}

\* the stages of the handler of file f, in the order of its code
Pipeline(f) ==
  IF f = "part_000"
    THEN << "preflight", "method", "ratelimit", "extract", "normalize", "format", "verify" >>
    ELSE << "preflight", "method", "extract", "normalize", "format", "verify" >>

\* the stages of file f's handler up to and including stage
UpTo(f, stage) ==
  LET n == CHOOSE i \in 1..Len(Pipeline(f)) : Pipeline(f)[i] = stage
  IN SubSeq(Pipeline(f), 1, n)

NoSweep == [removed |-> {}, trimmed |-> {}]

NoCall == [kind |-> "none"]

\* a response sent before any outbound call
Response(status, body, sent, f, ip, stage, swept) ==
  [status |-> status, body |-> body, sent |-> sent, file |-> f, ip |-> ip,
   stages |-> UpTo(f, stage), calls |-> 0, swept |-> swept, vies |-> NoCall]

\* req.method === 'OPTIONS'
IsPreflight(method) == method = "OPTIONS"

\* a handler without the method check
MethodAllowedAll(method) == TRUE

\* !(req.method !== 'GET' && req.method !== 'POST')
MethodAllowed(method) == method = "GET" \/ method = "POST"

\* req.method === 'GET' ? req.query.vatId : req.body?.vatId
vatIdOf(req) == IF req.method = "GET" THEN req.query ELSE req.body

TooManyBody ==
  [error |-> <<"Zu viele Anfragen. Bitte versuchen Sie es spaeter erneut.">>,
   formatValid |-> FALSE, retryAfter |-> RETRY_AFTER]

MissingBody(f) ==
  IF f = "part_000"
    THEN [error |-> <<"USt-ID ist erforderlich">>,
          usage |-> "GET /api/check-vat?vatId=DE123456789", formatValid |-> FALSE]
    ELSE [error |-> <<"USt-ID ist erforderlich">>,
          usage |-> "GET /api/check-vat?vatId=DE123456789"]

UnknownCountryBody(clean) ==
  [vatId |-> clean, valid |-> "false",
   error |-> <<"Unbekanntes Land oder ungueltiges Format">>, formatValid |-> FALSE]

BadFormatBody(clean) ==
  [vatId |-> clean, valid |-> "false",
   error |-> <<"Format entspricht nicht den Regeln fuer ">> \o countryCode(clean),
   formatValid |-> FALSE]

\* x || ''
OrEmpty(x) == IF x = "undefined" THEN "" ELSE x

ConfirmedBody(clean, viesData, now) ==
  [vatId |-> clean, valid |-> viesData.valid, name |-> OrEmpty(viesData.name),
   address |-> OrEmpty(viesData.address), countryCode |-> countryCode(clean),
   requestDate |-> now, formatValid |-> TRUE, source |-> "EU VIES", timestamp |-> now]

IndeterminateBody(clean, now) ==
  [vatId |-> clean, valid |-> "null", error |-> <<"VIES API nicht erreichbar">>,
   formatValid |-> TRUE, countryCode |-> countryCode(clean), timestamp |-> now,
   message |-> "Format ist gueltig, aber Online-Pruefung fehlgeschlagen"]

\* the options of the fetch call: part_000 passes timeout: 10000, check-vat none (0)
fetchTimeout(f) == IF f = "part_000" THEN FETCH_TIMEOUT ELSE 0

(***************************************************************************)
(* The handler up to its first await: everything it does synchronously.    *)
(* The result says what became of the rate limiter (rl), whether the       *)
(* request was admitted by it, and either the response sent (kind          *)
(* "respond") or the invocation suspended at the fetch call (kind "await").*)
(***************************************************************************)
Respond(rl, admittedNow, res) ==
  [kind |-> "respond", rl |-> rl, admitted |-> admittedNow, res |-> res]

Await(rl, admittedNow, task) ==
  [kind |-> "await", rl |-> rl, admitted |-> admittedNow, task |-> task]

\* a handler whose format test does not return: it goes on to the registry
ValidateNoFormatReturn(f, req, rl, limited, ip, swept) ==
  LET vatId == vatIdOf(req)
  IN IF ~Truthy(vatId)
       THEN Respond(rl, limited, Response(400, MissingBody(f), "json", f, ip, "extract", swept))
     ELSE IF ToStringThrows(vatId)
       THEN Respond(rl, limited, Response(500, <<>>, "uncaught", f, ip, "normalize", swept))
     ELSE LET clean == cleanVatId(vatId)
          IN IF countryCode(clean) \notin vatFormatKeys(f)
               THEN Respond(rl, limited,
                      Response(400, UnknownCountryBody(clean), "json", f, ip, "format", swept))
               ELSE Await(rl, limited,
                      [pc |-> "fetch", file |-> f, ip |-> ip, clean |-> clean,
                       stages |-> UpTo(f, "verify"), calls |-> 1,
                       timeout |-> fetchTimeout(f), swept |-> swept])

\* from the input extraction on: lines 55-131 of part_000, 19-92 of check-vat.js
Validate(f, req, rl, limited, ip, swept) ==
  LET vatId == vatIdOf(req)
  IN IF ~Truthy(vatId)
       THEN Respond(rl, limited, Response(400, MissingBody(f), "json", f, ip, "extract", swept))
     ELSE IF ToStringThrows(vatId)
       THEN Respond(rl, limited, Response(500, <<>>, "uncaught", f, ip, "normalize", swept))
     ELSE LET clean == cleanVatId(vatId)
          IN IF countryCode(clean) \notin vatFormatKeys(f)
               THEN Respond(rl, limited,
                      Response(400, UnknownCountryBody(clean), "json", f, ip, "format", swept))
             ELSE IF ~vatFormats(countryCode(clean), clean)
               THEN Respond(rl, limited,
                      Response(400, BadFormatBody(clean), "json", f, ip, "format", swept))
             ELSE Await(rl, limited,
                    [pc |-> "fetch", file |-> f, ip |-> ip, clean |-> clean,
                     stages |-> UpTo(f, "verify"), calls |-> 1,
                     timeout |-> fetchTimeout(f), swept |-> swept])

\* a handler that looks for the identifier first: a request without one is
\* answered before the rate limiter counts it
LimitedAfterExtract(req, sweep, rl, now) ==
  LET ip == clientIP(req)
      lim == RateLimit(rl, ip, now)
  IN IF ~Truthy(vatIdOf(req))
       THEN Respond(rl, FALSE,
              Response(400, MissingBody("part_000"), "json", "part_000", ip, "extract", NoSweep))
     ELSE IF ~lim.allowed
       THEN Respond(lim.rl, FALSE,
              Response(429, TooManyBody, "json", "part_000", ip, "ratelimit", NoSweep))
       ELSE LET after == IF sweep THEN Cleanup(lim.rl, now) ELSE lim.rl
            IN Validate("part_000", req, after, TRUE, ip,
                 [removed |-> DOMAIN lim.rl \ DOMAIN after,
                  trimmed |-> {x \in DOMAIN after : after[x] # lim.rl[x]}])

\* lines 21-53 of part_000: rate limiting and the occasional sweep
Limited(req, sweep, rl, now) ==
  LET ip == clientIP(req)
      lim == RateLimit(rl, ip, now)
  IN IF ~lim.allowed
       THEN Respond(lim.rl, FALSE,
              Response(429, TooManyBody, "json", "part_000", ip, "ratelimit", NoSweep))
       ELSE LET after == IF sweep THEN Cleanup(lim.rl, now) ELSE lim.rl
            IN Validate("part_000", req, after, TRUE, ip,
                 [removed |-> DOMAIN lim.rl \ DOMAIN after,
                  trimmed |-> {x \in DOMAIN after : after[x] # lim.rl[x]}])

\* the handler of file f; sweep: whether Math.random() < 0.02
handler(f, req, sweep, rl, now) ==
  IF IsPreflight(req.method)
    THEN Respond(rl, FALSE, Response(200, <<>>, "end", f, "", "preflight", NoSweep))
  ELSE IF ~MethodAllowed(req.method)
    THEN Respond(rl, FALSE,
           Response(405, [error |-> <<"Method not allowed">>], "json", f, "", "method", NoSweep))
  ELSE IF f = "part_000"
    THEN Limited(req, sweep, rl, now)
    ELSE Validate(f, req, rl, FALSE, "", NoSweep)

(***************************************************************************)
(* State                                                                   *)
(***************************************************************************)
VARIABLES
  rateLimiter,  \* the Map of part_000: client identity -> timestamps
  clock,        \* Date.now(), in ms
  tasks,        \* handler invocations suspended at an await, by slot
  res,          \* the response to the request that finished last
  admitted,     \* history: per identity, the bag of the times of its admitted
                \* requests that lie inside the window ending at clock
  rejected,     \* history: the identities that have been answered 429
  ticks,        \* history: how often the clock advanced
  input         \* the file and the raw identifier of the request under test,
                \* where a specification draws one at the start

vars == <<rateLimiter, clock, tasks, res, admitted, rejected, ticks, input>>

Slots == 1..MaxInFlight

Idle == [pc |-> "idle"]

\* no request under test
NoInput == [file |-> "", raw |-> <<>>]

NoResponse == [status |-> 0, body |-> <<>>, sent |-> "none", file |-> "", ip |-> "",
               stages |-> <<>>, calls |-> 0, swept |-> NoSweep, vies |-> NoCall]

\* the state after the module is loaded: const rateLimiter = new Map()
Init ==
  /\ rateLimiter = <<>>
  /\ clock = 0
  /\ tasks = [s \in Slots |-> Idle]
  /\ res = NoResponse
  /\ admitted = <<>>
  /\ rejected = {}
  /\ ticks = 0
  /\ input = NoInput

FreeSlots == {s \in Slots : tasks[s].pc = "idle"}

\* whether a time t lies inside the window that ends at now
InWindow(t, now) == now - WINDOW < t /\ t <= now

\* the history of admitted requests after one more at time now by ip
Admit(log, ip, now) ==
  [x \in DOMAIN log \cup {ip} |->
     IF x = ip
       THEN (IF ip \in DOMAIN log THEN log[ip] ELSE EmptyBag) (+) SetToBag({now})
       ELSE log[x]]

(***************************************************************************)
(* Actions                                                                 *)
(***************************************************************************)
\* an invocation whose write to the rate limiter is lost when it suspends,
\* as if the map were written only after the await
RequestWriteAfterAwait(f, req, sweep) ==
  LET r == handler(f, req, sweep, rateLimiter, clock)
  IN /\ admitted' = IF r.admitted THEN Admit(admitted, clientIP(req), clock) ELSE admitted
     /\ IF r.kind = "respond"
          THEN /\ res' = r.res
               /\ rateLimiter' = r.rl
               /\ rejected' = IF r.res.status = 429 THEN rejected \cup {r.res.ip} ELSE rejected
               /\ UNCHANGED tasks
          ELSE /\ FreeSlots # {}
               /\ tasks' = [tasks EXCEPT ![CHOOSE s \in FreeSlots : \A o \in FreeSlots : s <= o] = r.task]
               /\ UNCHANGED <<res, rejected, rateLimiter>>
     /\ UNCHANGED <<clock, ticks, input>>

\* One invocation of handler of file f, from its start to its first await
\* or to its response.
Request(f, req, sweep) ==
  LET r == handler(f, req, sweep, rateLimiter, clock)
  IN /\ rateLimiter' = r.rl
     /\ admitted' = IF r.admitted THEN Admit(admitted, clientIP(req), clock) ELSE admitted
     /\ IF r.kind = "respond"
          THEN /\ res' = r.res
               /\ rejected' = IF r.res.status = 429 THEN rejected \cup {r.res.ip} ELSE rejected
               /\ UNCHANGED tasks
          ELSE /\ FreeSlots # {}
               /\ tasks' = [tasks EXCEPT ![CHOOSE s \in FreeSlots : \A o \in FreeSlots : s <= o] = r.task]
               /\ UNCHANGED <<res, rejected>>
     /\ UNCHANGED <<clock, ticks, input>>

\* a catch block that reports the registry's failure as 502
CaughtAsBadGateway(task, answer, now) ==
  [status |-> 502, body |-> IndeterminateBody(task.clean, now), sent |-> "json",
   file |-> task.file, ip |-> task.ip, stages |-> task.stages, calls |-> task.calls,
   swept |-> task.swept, vies |-> answer]

\* the catch block: lines 161-173 of part_000, 121-133 of check-vat.js
Caught(task, answer, now) ==
  [status |-> 200, body |-> IndeterminateBody(task.clean, now), sent |-> "json",
   file |-> task.file, ip |-> task.ip, stages |-> task.stages, calls |-> task.calls,
   swept |-> task.swept, vies |-> answer]

\* lines 149-159 of part_000, 109-119 of check-vat.js
Succeeded(task, viesData, now) ==
  [status |-> 200, body |-> ConfirmedBody(task.clean, viesData, now), sent |-> "json",
   file |-> task.file, ip |-> task.ip, stages |-> task.stages, calls |-> task.calls,
   swept |-> task.swept, vies |-> viesData]

\* what the registry can do to the fetch call: answer with a success status,
\* answer with another status, or fail (network error)
FetchOutcomes == {"ok", "notOk", "error"}

\* a handler that calls the registry a second time after a failed call
FetchSettlesRetry(s, outcome) ==
  /\ tasks[s].pc = "fetch"
  /\ IF outcome = "ok"
       THEN /\ tasks' = [tasks EXCEPT ![s].pc = "json"]
            /\ UNCHANGED res
       ELSE IF tasks[s].calls < 2
         THEN /\ tasks' = [tasks EXCEPT ![s].calls = @ + 1]
              /\ UNCHANGED res
         ELSE /\ tasks' = [tasks EXCEPT ![s] = Idle]
              /\ res' = Caught(tasks[s], [kind |-> outcome], clock)
  /\ UNCHANGED <<rateLimiter, clock, admitted, rejected, ticks, input>>

\* the await of fetch settles and the handler runs on to its next await or
\* to its response: lines 131-145 of part_000, 92-105 of check-vat.js
FetchSettles(s, outcome) ==
  /\ tasks[s].pc = "fetch"
  /\ IF outcome = "ok"
       THEN /\ tasks' = [tasks EXCEPT ![s].pc = "json"]
            /\ UNCHANGED res
       ELSE /\ tasks' = [tasks EXCEPT ![s] = Idle]
            /\ res' = Caught(tasks[s], [kind |-> outcome], clock)
  /\ UNCHANGED <<rateLimiter, clock, admitted, rejected, ticks, input>>

\* the fetch call is aborted after its timeout, where the call has one:
\* the await throws and the catch block answers
FetchTimesOut(s) ==
  /\ tasks[s].pc \in {"fetch", "json"}
  /\ tasks[s].timeout > 0
  /\ tasks' = [tasks EXCEPT ![s] = Idle]
  /\ res' = Caught(tasks[s], [kind |-> "timeout"], clock)
  /\ UNCHANGED <<rateLimiter, clock, admitted, rejected, ticks, input>>

\* what response.json() can produce: a parse error, the JSON value null, or
\* an object with the fields valid, name, address
ViesBodies ==
  {[kind |-> "error"], [kind |-> "null"]}
  \cup {[kind |-> "object", valid |-> v, name |-> n, address |-> "undefined"] :
          v \in {"true", "false"}, n \in {"ACME GmbH", "undefined"}}

\* the await of response.json() settles and the handler answers:
\* lines 145-159 of part_000, 105-119 of check-vat.js
JsonSettles(s, viesData) ==
  /\ tasks[s].pc = "json"
  /\ tasks' = [tasks EXCEPT ![s] = Idle]
  /\ res' = IF viesData.kind = "object"
              THEN Succeeded(tasks[s], viesData, clock)
              ELSE Caught(tasks[s], viesData, clock)
  /\ UNCHANGED <<rateLimiter, clock, admitted, rejected, ticks, input>>

\* time passes: Date.now() grows by d
Tick(d) ==
  /\ clock' = clock + d
  /\ ticks' = ticks + 1
  /\ admitted' = [ip \in DOMAIN admitted |->
                    [t \in {x \in DOMAIN admitted[ip] : InWindow(x, clock + d)} |->
                       admitted[ip][t]]]
  /\ UNCHANGED <<rateLimiter, tasks, res, rejected, input>>

(***************************************************************************)
(* The requests explored                                                   *)
(***************************************************************************)
\* three clients: one behind a proxy chain, one known by its real-ip header,
\* one without any hint
ClientA == [forwardedFor |-> <<"10.0.0.1", "10.9.9.9">>, realIp |-> "10.0.0.2",
            remoteAddress |-> "10.0.0.3"]

ClientB == [forwardedFor |-> <<>>, realIp |-> "10.0.0.2", remoteAddress |-> "10.0.0.3"]

ClientU == [forwardedFor |-> <<>>, realIp |-> "", remoteAddress |-> ""]

\* the request of client c with method m carrying v as vatId
Req(m, c, v) ==
  [method |-> m, forwardedFor |-> c.forwardedFor, realIp |-> c.realIp,
   remoteAddress |-> c.remoteAddress,
   query |-> IF m = "GET" THEN v ELSE JsUndefined,
   body |-> IF m = "POST" THEN v ELSE JsUndefined]

\* what a query string can carry as vatId: nothing, or a string
QueryValues ==
  { JsUndefined,
    JsString(<<>>),
    JsString(<<"D","E","1","2","3","4","5","6","7","8","9">>),
    JsString(<<"d","e"," ","1","2","3"," ","4","5","6"," ","7","8","9">>),
    JsString(<<"X","X","9","9","9">>),
    JsString(<<"D","E","1","2","3","4","5","6","7","8">>) }

\* what a parsed JSON body can carry as vatId: nothing, a string, an object
BodyValues ==
  { JsUndefined,
    JsString(<<"D","E","1","2","3","4","5","6","7","8","9">>),
    JsObject,
    JsObjectToString }

Requests ==
  {Req("GET", ClientU, v) : v \in QueryValues}
  \cup {Req("POST", ClientU, v) : v \in BodyValues}
  \cup {Req(m, ClientU, JsUndefined) : m \in {"OPTIONS", "DELETE"}}

\* the clock advances by one of these
Steps == {WINDOW - 1, WINDOW}

Stored(ip) == IF ip \in DOMAIN rateLimiter THEN Len(rateLimiter[ip]) ELSE 0

\* a client that stays light: it asks while its record holds fewer than
\* MaxSmall timestamps
Light(ip) == Stored(ip) < MaxSmall

\* the clock advances when at most MaxSmall timestamps of each record stay
\* inside the window
Carried(d) ==
  \A ip \in DOMAIN rateLimiter :
    Len(SelectSeq(rateLimiter[ip], LAMBDA t : InWindow(t, clock + d))) <= MaxSmall

\* a record near empty or near the limit
Edge(ip) == Stored(ip) < MaxSmall \/ Stored(ip) >= LIMIT - MaxSmall

\* a record short enough to hold timestamps of two windows, or near the limit
Near(ip) == Stored(ip) <= MaxSmall + 1 \/ Stored(ip) >= LIMIT - MaxSmall

(***************************************************************************)
(* SpecLimiter: the rate limiter of part_000 under two clients and a       *)
(* moving clock; every request ends synchronously (it carries no vatId).   *)
(* Client A asks without bound (GET), client B stays light (POST).  While  *)
(* A's record runs from short to near the limit, A alone acts: B asks and  *)
(* the clock advances before or after that run.                            *)
(***************************************************************************)
NextLimiter ==
  \/ \E sweep \in BOOLEAN :
       Request("part_000", Req("GET", ClientA, JsUndefined), sweep)
  \/ \E sweep \in BOOLEAN :
       /\ Light(clientIP(ClientB))
       /\ Near(clientIP(ClientA))
       /\ Request("part_000", Req("POST", ClientB, JsUndefined), sweep)
  \/ \E d \in Steps :
       /\ ticks < MaxTicks
       /\ Carried(d)
       /\ Near(clientIP(ClientA))
       /\ Tick(d)

SpecLimiter == Init /\ [][NextLimiter]_vars

(***************************************************************************)
(* Spec: both handlers under every kind of request of one client, with     *)
(* invocations suspended at their awaits while others run.  Between a      *)
(* record near empty and a record near the limit the client sends the      *)
(* plain request only: GET without vatId to part_000, and the registry's    *)
(* answers arrive before or after that run, the calls staying suspended    *)
(* through it.  The clock stands still here, so a sweep finds nothing to   *)
(* drop: it is drawn for the request without vatId only.                   *)
(***************************************************************************)
Plain(f, req, sweep) ==
  f = "part_000" /\ req = Req("GET", ClientU, JsUndefined) /\ ~sweep

Next ==
  \/ \E f \in Files, req \in Requests, sweep \in BOOLEAN :
       /\ sweep => f = "part_000" /\ req = Req("GET", ClientU, JsUndefined)
       /\ Edge(clientIP(ClientU)) \/ Plain(f, req, sweep)
       /\ Request(f, req, sweep)
  \/ \E s \in Slots, outcome \in FetchOutcomes :
       Edge(clientIP(ClientU)) /\ FetchSettles(s, outcome)
  \/ \E s \in Slots :
       Edge(clientIP(ClientU)) /\ FetchTimesOut(s)
  \/ \E s \in Slots, viesData \in ViesBodies :
       Edge(clientIP(ClientU)) /\ JsonSettles(s, viesData)

Spec == Init /\ [][Next]_vars

(***************************************************************************)
(* SpecLive: Spec with the scheduling the code can rely on.  Whether and   *)
(* when the registry answers is the registry's affair (no fairness); a     *)
(* fetch call that carries a timeout is aborted when it expires.           *)
(***************************************************************************)
SpecLive == Spec /\ \A s \in Slots : WF_vars(FetchTimesOut(s))

(***************************************************************************)
(* SpecFormat: one request per behaviour, its file and raw identifier      *)
(* drawn at the start: every alternative of every documented pattern, with *)
(* its digit run as documented, shortened and lengthened, the Greek        *)
(* identifier under both codes, and raw strings that need normalization.   *)
(***************************************************************************)
Codes == vatFormatKeys("part_000")

Stretches == (0 - MaxStretch)..MaxStretch

Samples == {Sample(form, k) : form \in UNION {Forms(c) : c \in Codes}, k \in Stretches}

Greek == {<<"G","R">> \o DigitRun(9), <<"E","L">> \o DigitRun(9)}

RawSamples ==
  { <<>>, <<"d">>, <<" ">>, <<" ","x"," ">>,
    <<" ","d","e"," ","1","2","3","\t","4","5","6"," ","7","8","9","\n">>,
    <<"x","i"," ","1","2","3"," ","4","5","6"," ","7","8","9">>,
    <<"a"," ","t","U","1","2","3","4","5","6","7","8">> }

InitFormat ==
  /\ input \in [file : Files, raw : Samples \cup Greek \cup RawSamples]
  /\ rateLimiter = <<>>
  /\ clock = 0
  /\ tasks = [s \in Slots |-> Idle]
  /\ res = NoResponse
  /\ admitted = <<>>
  /\ rejected = {}
  /\ ticks = 0

\* the request under test is sent, once
Submit(m) ==
  /\ res.sent = "none"
  /\ FreeSlots = Slots
  /\ Request(input.file, Req(m, ClientU, JsString(input.raw)), FALSE)

NextFormat ==
  \/ \E m \in {"GET", "POST"} : Submit(m)
  \/ \E s \in Slots, outcome \in FetchOutcomes : FetchSettles(s, outcome)
  \/ \E s \in Slots : FetchTimesOut(s)
  \/ \E s \in Slots, viesData \in ViesBodies : JsonSettles(s, viesData)

SpecFormat == InitFormat /\ [][NextFormat]_vars

(***************************************************************************)
(* SpecQuota: the handler of part_000 under two clients, every kind of     *)
(* identifier, the registry's answers and a moving clock.  A client asks   *)
(* while its record holds at most MaxSmall timestamps and no request is at *)
(* the registry: the requests follow one another (Spec covers the          *)
(* suspended ones).                                                        *)
(***************************************************************************)
Small(ip) == Stored(ip) <= MaxSmall

Calm == FreeSlots = Slots

\* the registry's bodies explored here: a parse error and a confirmation
QuotaBodies == {b \in ViesBodies : b.kind = "error" \/ (b.kind = "object" /\ b.valid = "true")}

NextQuota ==
  \/ \E c \in {ClientA, ClientB}, v \in QueryValues, sweep \in BOOLEAN :
       /\ Small(clientIP(c))
       /\ Calm
       /\ Request("part_000", Req("GET", c, v), sweep)
  \/ \E s \in Slots, outcome \in FetchOutcomes : FetchSettles(s, outcome)
  \/ \E s \in Slots : FetchTimesOut(s)
  \/ \E s \in Slots, viesData \in QuotaBodies : JsonSettles(s, viesData)
  \/ \E d \in Steps :
       /\ ticks < MaxSmall
       /\ Tick(d)

SpecQuota == Init /\ [][NextQuota]_vars

(***************************************************************************)
(* Properties                                                              *)
(***************************************************************************)
\* how many admitted requests of ip lie inside the window ending at clock
AdmittedInWindow(ip) ==
  IF ip \in DOMAIN admitted THEN BagCardinality(admitted[ip]) ELSE 0

\* the stored timestamps of ip that lie inside the window ending at clock
Live(ip) ==
  IF ip \in DOMAIN rateLimiter
    THEN SelectSeq(rateLimiter[ip], LAMBDA t : InWindow(t, clock))
    ELSE <<>>

IsPrefix(p, q) == Len(p) <= Len(q) /\ SubSeq(q, 1, Len(p)) = p

\* a step in which a request ran from its start to its response
Answered == clock' = clock /\ tasks' = tasks

\* C1, each request of the limiter: with 150 admitted requests of its
\* identity inside the window it is answered 429 with retryAfter 3600 and
\* is not counted; with fewer it is admitted and counted.
C1_Decision ==
  Answered =>
    IF AdmittedInWindow(res'.ip) >= 150
      THEN /\ res'.status = 429
           /\ res'.body.retryAfter = 3600
           /\ admitted' = admitted
      ELSE /\ res'.status # 429
           /\ res'.ip \in DOMAIN admitted'
           /\ BagCardinality(admitted'[res'.ip]) = AdmittedInWindow(res'.ip) + 1

\* C1: for requests with non-decreasing timestamps the rate limiter admits
\* the first 150 requests of an identity inside a window and rejects the
\* next one with 429 and retryAfter = 3600, so that no identity ever has
\* more than 150 admitted requests inside one window.
C1_Exactly150PerWindow ==
  /\ [](\A ip \in DOMAIN admitted : AdmittedInWindow(ip) <= 150)
  /\ [][C1_Decision]_vars

\* the 151st request of a window has been rejected
C1_Witness ==
  /\ res.status = 429
  /\ res.body.retryAfter = 3600
  /\ AdmittedInWindow(res.ip) = 150
  /\ Stored(res.ip) = 150

\* C3: a request answered 429 leaves the rate limiter exactly as it was:
\* neither the rejected identity's record nor any other one changes.
C3_RejectionLeavesLimiter ==
  [][(Answered /\ res'.status = 429) => rateLimiter' = rateLimiter]_vars

\* a rejection while another identity has a record too
C3_Witness ==
  /\ res.status = 429
  /\ \E o \in DOMAIN rateLimiter : o # res.ip
  /\ Stored(res.ip) = 150

\* C4: a request of an identity that has been rejected before is admitted
\* again as soon as fewer than 150 of its stored timestamps are inside the
\* window.
C4_AdmittedAgain ==
  [][(Answered /\ res'.ip \in rejected /\ Len(Live(res'.ip)) < 150)
       => res'.status # 429]_vars

\* an identity rejected earlier has been admitted after the clock advanced
C4_Witness ==
  /\ res.ip \in rejected
  /\ res.status = 400
  /\ ticks > 0
  /\ rateLimiter[res.ip] = <<clock>>

\* C5: no step removes an identity that has a timestamp inside the window
\* or drops such a timestamp from a record; an identity is deleted only
\* when none of its timestamps is inside the window.
C5_SweepKeepsLive ==
  [][\A ip \in DOMAIN rateLimiter :
       /\ Live(ip) # <<>> => ip \in DOMAIN rateLimiter'
       /\ ip \in DOMAIN rateLimiter'
            => IsPrefix(Live(ip), SelectSeq(rateLimiter'[ip], LAMBDA t : InWindow(t, clock)))
       /\ ip \notin DOMAIN rateLimiter' => Live(ip) = <<>>]_vars

\* a sweep has shortened the record of an identity other than the
\* requesting one, dropping what left the window and keeping the rest
C5_Witness ==
  \E ip \in res.swept.trimmed :
    /\ ip # res.ip
    /\ ip \in DOMAIN rateLimiter
    /\ rateLimiter[ip] # <<>>
    /\ Live(ip) = rateLimiter[ip]

\* a sweep has removed an identity none of whose timestamps was inside the
\* window
C5_Removal ==
  /\ res.swept.removed # {}
  /\ res.swept.removed \cap DOMAIN rateLimiter = {}

Busy == {s \in Slots : tasks[s].pc # "idle"}

\* C2: with invocations suspended at their awaits while others run, every
\* admitted request of an identity is in its stored record and no identity
\* is admitted more than 150 times inside a window.
C2_NoAdmissionPastLimit ==
  \A ip \in DOMAIN admitted :
    /\ AdmittedInWindow(ip) <= 150
    /\ Stored(ip) = AdmittedInWindow(ip)

\* two requests of one identity are suspended and a third one of that
\* identity has been rejected at the limit
C2_Witness ==
  /\ Cardinality({s \in Busy : tasks[s].file = "part_000" /\ tasks[s].ip = res.ip}) >= 2
  /\ res.status = 429
  /\ AdmittedInWindow(res.ip) = 150

\* the stages in the order of the specification
Order == << "preflight", "method", "ratelimit", "extract", "normalize", "format", "verify" >>

Pos(stage) == CHOOSE i \in 1..Len(Order) : Order[i] = stage

\* the stages are entered in order, none twice, none skipped but the rate
\* limit, which the handler of check-vat.js does not have
Sequential(f, stages) ==
  /\ stages # <<>>
  /\ stages[1] = "preflight"
  /\ \A i \in 1..Len(stages) - 1 :
       \/ Pos(stages[i + 1]) = Pos(stages[i]) + 1
       \/ f = "check-vat" /\ stages[i] = "method" /\ stages[i + 1] = "extract"

Last(stages) == stages[Len(stages)]

\* whether the table of file f accepts the normalized identifier clean
FormatOk(f, clean) ==
  countryCode(clean) \in vatFormatKeys(f) /\ vatFormats(countryCode(clean), clean)

C7_VerifiedIs200 ==
  (res.calls > 0 \/ ("vatId" \in DOMAIN res.body /\ FormatOk(res.file, res.body.vatId))) =>
    /\ res.status = 200
    /\ res.calls = 1
    /\ res.body.formatValid = TRUE
    /\ IF res.vies.kind = "object"
         THEN /\ res.body.valid = res.vies.valid
              /\ res.vies.name # "undefined" => res.body.name = res.vies.name
         ELSE /\ res.vies.kind \in {"notOk", "error", "timeout", "null"}
              /\ res.body.valid = "null"

\* the registry answered with a non-success status
C7_Witness ==
  /\ res.vies.kind = "notOk"
  /\ res.status = 200
  /\ res.body.valid = "null"
  /\ res.body.formatValid = TRUE

\* the registry confirmed an identifier and named its holder
C7_PassedThrough ==
  /\ res.vies.kind = "object"
  /\ res.status = 200
  /\ res.body.valid = "true"
  /\ res.body.name = "ACME GmbH"

\* C8: every request ends with a response the handler sent, of status 200,
\* 400, 405 or 429.
C8_EveryRequestAnswered ==
  res.sent # "none" => res.sent \in {"json", "end"} /\ res.status \in {200, 400, 405, 429}

\* C9: every request suspended at the registry call is answered, even when
\* the registry never answers.
C9_CallIsBounded ==
  \A s \in Slots : (tasks[s].pc \in {"fetch", "json"}) ~> (tasks[s].pc = "idle")

\* a request with every header, query and body the model draws from
AnyReq(m, c, q, b) ==
  [method |-> m, forwardedFor |-> c.forwardedFor, realIp |-> c.realIp,
   remoteAddress |-> c.remoteAddress, query |-> q, body |-> b]

\* C10: in every state, an OPTIONS request is answered 200 with an empty
\* body and a request that is neither GET, POST nor OPTIONS is answered
\* 405; neither changes the rate limiter, is counted for an identity or
\* calls the registry.
C10_NoProcessing ==
  \A f \in Files, v \in BodyValues, sweep \in BOOLEAN, m \in {"OPTIONS", "DELETE"} :
    LET o == handler(f, AnyReq(m, ClientA, v, v), sweep, rateLimiter, clock)
    IN /\ o.kind = "respond"
       /\ o.rl = rateLimiter
       /\ ~o.admitted
       /\ o.res.calls = 0
       /\ o.res.ip = ""
       /\ IF m = "OPTIONS"
            THEN o.res.status = 200 /\ o.res.sent = "end" /\ o.res.body = <<>>
            ELSE o.res.status = 405 /\ o.res.sent = "json" /\ DOMAIN o.res.body = {"error"}

\* an OPTIONS request was answered while the rate limiter holds a record
\* and a request is suspended
C10_Witness ==
  /\ res.sent = "end"
  /\ res.status = 200
  /\ res.body = <<>>
  /\ rateLimiter # <<>>
  /\ Busy # {}

\* the request under test has been sent
Submitted == res.sent # "none" \/ FreeSlots # Slots

\* the request under test passed the format validation: it is suspended at
\* the registry call or was answered after it
ReachedVerify ==
  \/ FreeSlots # Slots
  \/ res.sent # "none" /\ Last(res.stages) = "verify"

\* the request under test was rejected by the format test of country code c
RejectedNaming(c) ==
  /\ res.status = 400
  /\ res.body.error = <<"Format entspricht nicht den Regeln fuer ">> \o c

\* C11: for every country code of the table, an identifier matching the
\* code's documented pattern passes the format validation, and the same
\* identifier with its digit run shortened or lengthened is rejected with
\* the reason naming that country code.
C11_PatternsAndMutations ==
  Submitted =>
    \A c \in vatFormatKeys(input.file) : \A form \in Forms(c) :
      /\ input.raw = Sample(form, 0) => ReachedVerify
      /\ \A k \in Stretches \ {0} : input.raw = Sample(form, k) => RejectedNaming(c)

\* whether the pattern of code c has an alternative like form with a digit
\* run k digits longer
Allows(c, form, k) ==
  \E g \in Forms(c) : g.pre = form.pre /\ g.post = form.post /\ g.n = form.n + k

\* C11 as amended: for every country code of the table, an identifier that
\* carries the code as its prefix and matches the code's pattern passes the
\* format validation, and the same identifier with its digit run shortened
\* or lengthened is rejected with the reason naming that country code
\* unless the pattern allows the new length too (BG 9-10, CZ 8-10, RO 2-10).
C11_MutationsOutsidePattern ==
  Submitted =>
    \A c \in vatFormatKeys(input.file) : \A form \in Forms(c) : \A k \in Stretches :
      (input.raw = Sample(form, k) /\ countryCode(input.raw) = c) =>
        IF Allows(c, form, k) THEN ReachedVerify ELSE RejectedNaming(c)

\* the 12-digit Lithuanian identifier, shortened by one digit, was rejected
\* for LT
C11_Witness ==
  /\ input.raw = <<"L","T">> \o DigitRun(11)
  /\ RejectedNaming(<<"L","T">>)
  /\ res.calls = 0

\* a Romanian identifier whose digit run was shortened to another allowed
\* length passed
C11_StillAllowed ==
  /\ input.raw = <<"R","O">> \o DigitRun(2)
  /\ res.status = 200

\* C12: the table holds GR and EL with the same pattern, a Greek identifier
\* passes the format validation under either prefix, and the table covers
\* the 27 EU jurisdictions and XI.
C12_GreeceBothCodes ==
  (Submitted /\ input.raw \in Greek) =>
    /\ {<<"G","R">>, <<"E","L">>, <<"X","I">>} \subseteq vatFormatKeys(input.file)
    /\ Cardinality(vatFormatKeys(input.file) \ {<<"E","L">>, <<"X","I">>}) = 27
    /\ \A raw \in Greek : vatFormats(<<"G","R">>, raw) = vatFormats(<<"E","L">>, raw)
    /\ ReachedVerify

\* C13: a request without vatId, or with an empty one, is answered 400 with
\* an error, a usage hint and formatValid = false, before the format
\* validation and without a registry call.
C13_MissingInput ==
  (res.sent # "none" /\ Last(res.stages) = "extract") =>
    /\ res.status = 400
    /\ res.calls = 0
    /\ {"error", "usage", "formatValid"} \subseteq DOMAIN res.body
    /\ res.body.formatValid = FALSE

\* the normalized form of a raw identifier
normalize(raw) == cleanVatId(JsString(raw))

\* C14: normalizing the normalized identifier changes nothing, the country
\* code followed by the local number is the normalized identifier, also
\* when it has fewer than 2 characters, and the handler works on that
\* normalized identifier.
C14_NormalizeIdempotentSplit ==
  LET n == normalize(input.raw)
  IN /\ normalize(n) = n
     /\ countryCode(n) \o vatNumber(n) = n
     /\ Len(countryCode(n)) = (IF Len(n) < 2 THEN Len(n) ELSE 2)
     /\ \A s \in Slots : tasks[s].pc # "idle" => tasks[s].clean = n
     /\ "vatId" \in DOMAIN res.body => res.body.vatId = n

\* a raw identifier with blanks, a tab, a newline and lower-case letters
\* reached the registry call in its normalized form
C14_Witness ==
  /\ input.raw = <<" ","d","e"," ","1","2","3","\t","4","5","6"," ","7","8","9","\n">>
  /\ tasks[1].pc = "fetch"
  /\ tasks[1].clean = <<"D","E","1","2","3","4","5","6","7","8","9">>

\* an identifier of one character was split into that character and an
\* empty local number, and rejected as an unknown country
C14_Short ==
  /\ input.raw = <<"d">>
  /\ res.status = 400
  /\ res.body.vatId = <<"D">>
  /\ vatNumber(res.body.vatId) = <<>>

\* the timestamps of times not older than one window at now; inclusive says
\* whether a timestamp exactly one window old counts as not older
Kept(times, now, inclusive) ==
  SelectSeq(times, LAMBDA t : IF inclusive THEN t >= now - WINDOW ELSE t > now - WINDOW)

\* a request's step filters by Kept: the decision counts the kept timestamps
\* of the identity, an admitted request stores them followed by now, and
\* every other record is left alone or swept down to its kept timestamps
FiltersBy(inclusive) ==
  Answered =>
    LET ip == res'.ip
        mine == IF ip \in DOMAIN rateLimiter
                  THEN Kept(rateLimiter[ip], clock, inclusive) ELSE <<>>
    IN /\ res'.status = 429 <=> Len(mine) >= LIMIT
       /\ res'.status # 429 => rateLimiter'[ip] = Append(mine, clock)
       /\ \A o \in DOMAIN rateLimiter \ {ip} :
            IF o \in DOMAIN rateLimiter'
              THEN rateLimiter'[o] \in {rateLimiter[o], Kept(rateLimiter[o], clock, inclusive)}
              ELSE Kept(rateLimiter[o], clock, inclusive) = <<>>

\* C15: the rate-limit filter and the sweep filter drop a timestamp t if
\* t < now - 3600000 and keep it if t >= now - 3600000, the timestamp
\* exactly one window old included.
C15_KeepsBoundary == [][FiltersBy(TRUE)]_vars

\* C15 as amended: both filters drop a timestamp t if t <= now - 3600000
\* and keep it if t > now - 3600000; the timestamp exactly one window old
\* is dropped.
C15_DropsBoundary == [][FiltersBy(FALSE)]_vars

\* an identity rejected at time 0 asked again exactly one window later: all
\* its timestamps, exactly one window old, were dropped and it was admitted
C15_Witness ==
  /\ clock = WINDOW
  /\ ticks = 1
  /\ res.ip \in rejected
  /\ res.status = 400
  /\ rateLimiter[res.ip] = <<WINDOW>>

\* a sweep exactly one window after an identity's only request removed the
\* identity
C15_SweepBoundary ==
  /\ clock = WINDOW
  /\ ticks = 1
  /\ res.swept.removed # {}

\* the step stored exactly one more timestamp, now, for ip, after the
\* timestamps of ip still inside the window, and none for anyone else
AppendedOnce(ip) ==
  /\ ip \in DOMAIN rateLimiter'
  /\ rateLimiter'[ip] =
       Append(IF ip \in DOMAIN rateLimiter THEN Recent(rateLimiter[ip], clock) ELSE <<>>, clock)
  /\ \A o \in DOMAIN rateLimiter' \ {ip} :
       /\ o \in DOMAIN rateLimiter
       /\ rateLimiter'[o] \in {rateLimiter[o], Recent(rateLimiter[o], clock)}

\* C16: every request that passes the rate limit stores exactly one
\* timestamp, now, for its own identity and none for another one, whether
\* it is answered 400 at once (missing input, unknown country, bad format)
\* or goes on to the registry call; the later answer (200 confirmed or
\* indeterminate) changes nothing in the rate limiter.
C16_AdmittedConsumesQuota ==
  [][/\ (Answered /\ res'.status = 400) => AppendedOnce(res'.ip)
     /\ \A s \in Slots :
          /\ (tasks[s].pc = "idle" /\ tasks'[s].pc # "idle") => AppendedOnce(tasks'[s].ip)
          /\ tasks[s].pc # "idle" /\ tasks'[s] # tasks[s] => rateLimiter' = rateLimiter]_vars

\* a second request with a badly formed identifier was counted for its
\* identity while another identity holds a record
C16_Witness ==
  /\ res.status = 400
  /\ Last(res.stages) = "format"
  /\ Len(rateLimiter[res.ip]) = 2
  /\ \E o \in DOMAIN rateLimiter : o # res.ip

\* a request answered by the registry had been counted when it started
C16_Confirmed ==
  /\ res.status = 200
  /\ res.vies.kind = "object"
  /\ res.ip \in DOMAIN rateLimiter
  /\ ticks = 0
  /\ rateLimiter[res.ip] = <<0>>

\* C17: a request calls the registry at most once and only with an
\* identifier that passed the format validation; after a failed call
\* (non-success status, network error, parse error) it is answered at once,
\* with the indeterminate result, and never goes back to the call.
C17_OneCallNoRetry ==
  [][/\ res'.calls <= 1
     /\ \A s \in Slots :
          /\ tasks'[s].pc # "idle" =>
               tasks'[s].calls = 1 /\ FormatOk(tasks'[s].file, tasks'[s].clean)
          /\ tasks[s].pc = "json" => tasks'[s].pc \in {"json", "idle"}
          /\ (tasks[s].pc # "idle" /\ tasks'[s] # tasks[s]) =>
               \/ tasks[s].pc = "fetch" /\ tasks'[s] = [tasks[s] EXCEPT !.pc = "json"]
               \/ /\ tasks'[s].pc = "idle"
                  /\ res'.calls = 1
                  /\ res'.status = 200
                  /\ res'.vies.kind # "object" => res'.body.valid = "null"]_vars

\* a network error was answered with the indeterminate result after one call
C17_Witness ==
  /\ res.vies.kind = "error"
  /\ res.calls = 1
  /\ res.status = 200
  /\ res.body.valid = "null"
  /\ Last(res.stages) = "verify"

\* C18: every identity in the rate limiter has a record of at least 1 and
\* at most 150 timestamps, after any sequence of admitted requests,
\* rejected requests and sweeps.
C18_RecordsBounded ==
  \A ip \in DOMAIN rateLimiter :
    /\ rateLimiter[ip] # <<>>
    /\ Len(rateLimiter[ip]) <= 150

\* an identity that had filled its record and been rejected triggered,
\* after the clock advanced, a sweep that removed another identity
C18_Witness ==
  /\ res.ip \in rejected
  /\ res.swept.removed # {}
  /\ res.ip \in DOMAIN rateLimiter
  /\ ticks > 0

\* a record is full
C18_Full == \E ip \in DOMAIN rateLimiter : Len(rateLimiter[ip]) = 150 /\ ticks > 0

\* the identities that ask the rate limiter
Identities == {clientIP(ClientA), clientIP(ClientB)}

\* a sweep now changes no decision, now or later
SweepTransparent ==
  LET swept == Cleanup(rateLimiter, clock)
  IN \A ip \in Identities : \A d \in {0} \cup Steps :
       RateLimit(swept, ip, clock + d).allowed = RateLimit(rateLimiter, ip, clock + d).allowed

\* whatever sweeps ran, the stored timestamps of an identity inside the
\* window are its admitted requests inside the window
StoredIsHistory ==
  \A ip \in Identities : Len(Live(ip)) = AdmittedInWindow(ip)

\* the decision is taken on the map as the request found it, and whatever
\* a sweep does, it does to the map the admission has written
DecidedBeforeSweep ==
  Answered =>
    LET lim == RateLimit(rateLimiter, res'.ip, clock)
    IN /\ res'.status = 429 <=> ~lim.allowed
       /\ res'.status = 429 => res'.swept = NoSweep
       /\ rateLimiter' = IF res'.swept = NoSweep THEN lim.rl ELSE Cleanup(lim.rl, clock)

\* C19: the decision for a request is the same whether or not sweeps ran
\* after earlier requests, and a sweep runs only after the decision for
\* the request that triggers it.
C19_SweepTransparent ==
  /\ [](SweepTransparent /\ StoredIsHistory)
  /\ [][DecidedBeforeSweep]_vars

\* an identity was rejected at the limit after an earlier sweep had removed
\* another identity
C19_Witness ==
  /\ res.status = 429
  /\ AdmittedInWindow(res.ip) = 150
  /\ \E o \in DOMAIN admitted : o \notin DOMAIN rateLimiter

\* the timestamps of ip in the map rl that lie inside the window ending at now
LiveIn(rl, ip, now) ==
  IF ip \in DOMAIN rl THEN SelectSeq(rl[ip], LAMBDA t : InWindow(t, now)) ELSE <<>>

\* the decision for an identity is a function of its own admitted requests
\* inside the window
OwnHistoryDecides ==
  \A ip \in Identities :
    RateLimit(rateLimiter, ip, clock).allowed <=> AdmittedInWindow(ip) < LIMIT

\* no request of another identity, sweeping or not, changes the decision
\* for an identity, now or later
OthersChangeNothing ==
  \A c \in {ClientA, ClientB} :
    LET before == [d \in {0} \cup Steps |->
                     RateLimit(rateLimiter, clientIP(c), clock + d).allowed]
    IN \A o \in {ClientA, ClientB} \ {c}, sweep \in BOOLEAN :
         LET after == handler("part_000", Req("GET", o, JsUndefined), sweep,
                              rateLimiter, clock).rl
         IN \A d \in {0} \cup Steps :
              RateLimit(after, clientIP(c), clock + d).allowed = before[d]

\* C20: the decision for a request of an identity depends on the earlier
\* admitted requests of that identity only; requests of other identities,
\* admitted, rejected or sweeping, leave its in-window timestamps and its
\* decision as they were.
C20_IsolatedPerIdentity ==
  /\ [](OwnHistoryDecides /\ OthersChangeNothing)
  /\ [][Answered =>
          \A o \in Identities \ {res'.ip} :
            LiveIn(rateLimiter', o, clock) = LiveIn(rateLimiter, o, clock)]_vars

\* the light client was admitted while the other identity is locked out
C20_Witness ==
  /\ res.ip = clientIP(ClientB)
  /\ res.status = 400
  /\ clientIP(ClientA) \in rejected
  /\ AdmittedInWindow(clientIP(ClientA)) = 150
  /\ Stored(clientIP(ClientA)) = 150

====
